---- MODULE Spec2Model ----
(***************************************************************************)
(* Conversational orchestration of the RAG medical chatbot:                *)
(* src/rag/graph_nodes.py (the nodes), src/rag/graph.py (the graph and its *)
(* routers) and src/main.py (the chat loop that invokes the graph once per *)
(* question on one thread id and then collects feedback).                  *)
(*                                                                         *)
(* Texts are sequences of one-character strings, so that strip(), lower(), *)
(* startswith() and the substring test of is_important are computed and    *)
(* not assumed.                                                            *)
(***************************************************************************)
EXTENDS Naturals, Sequences, FiniteSets, TLC

VARIABLES state, pc, outcome, turn, feedback, feedback_log, obs,
          csv_file, writer

vars == <<state, pc, outcome, turn, feedback, feedback_log, obs,
          csv_file, writer>>

(***************************************************************************)
(* Bounds of the model.                                                    *)
(***************************************************************************)
\* questions the user types in one session
MaxTurns == 2
\* passages one retriever call returns in the model
MaxDocs == 2
\* the observers' counters saturate here
CountCap == 4
\* questions of the longer session with fewer port outcomes (LongSpec)
LongTurns == 3
\* sessions that append to feedback_log.csv at the same time (SinkSpec)
NumWriters == 2
\* rows each of them appends
MaxWrites == 2

(***************************************************************************)
(* Text helpers: str.strip, str.lower, str.startswith, `in`.               *)
(***************************************************************************)
Whitespace == {" ", "\n"}

LowerChar(c) ==
    CASE c = "D" -> "d"
      [] c = "S" -> "s"
      [] c = "G" -> "g"
      [] c = "Y" -> "y"
      [] c = "N" -> "n"
      [] OTHER -> c

Lower(s) == [i \in 1..Len(s) |-> LowerChar(s[i])]

RECURSIVE LStrip(_)
LStrip(s) == IF s # <<>> /\ Head(s) \in Whitespace THEN LStrip(Tail(s)) ELSE s

RECURSIVE RStrip(_)
RStrip(s) ==
    IF s # <<>> /\ s[Len(s)] \in Whitespace
    THEN RStrip(SubSeq(s, 1, Len(s) - 1))
    ELSE s

Strip(s) == RStrip(LStrip(s))

StartsWith(s, p) == Len(s) >= Len(p) /\ SubSeq(s, 1, Len(p)) = p

Contains(s, sub) ==
    \E i \in 1..(Len(s) + 1) :
        /\ i + Len(sub) - 1 <= Len(s)
        /\ SubSeq(s, i, i + Len(sub) - 1) = sub

Member(x, seq) == \E i \in 1..Len(seq) : seq[i] = x

\* response.strip().lower().startswith("y")
StartsWithY(resp) == StartsWith(Lower(Strip(resp)), <<"y">>)

(***************************************************************************)
(* Messages and fixed texts.                                               *)
(***************************************************************************)
HumanMessage(text) == [role |-> "human", content |-> text]
AIMessage(text) == [role |-> "ai", content |-> text]
\* AgentState.question before the first turn
NoQuestion == [role |-> "none", content |-> <<>>]

CannotAnswerText == <<"Sorry, I couldn't find an answer.">>
OffTopicText == <<"That question is off-topic for this case study.">>

keywords ==
    << <<"d","o","s","a","g","e">>,
       <<"s","i","d","e"," ","e","f","f","e","c","t">>,
       <<"a","d","m","i","n","i","s","t","r","a","t","i","o","n">>,
       <<"c","l","i","n","i","c","a","l">>,
       <<"a","i","m","o","v","i","g">>,
       <<"r","e","p","a","t","h","a">> >>

\* the keywords are looked up without lower()
is_important_cased(message) ==
    \E i \in 1..Len(keywords) : Contains(message, keywords[i])

\* any(k in message.lower() for k in keywords)
is_important(message) ==
    \E i \in 1..Len(keywords) : Contains(Lower(message), keywords[i])

(***************************************************************************)
(* What the user, the language model and the retriever may hand in.        *)
(***************************************************************************)
Q_Dosage == <<"D","o","S","a","g","e","?">>
Q_Hi == <<"h","i">>
Questions == {Q_Dosage, Q_Hi}

\* raw outputs of the rewrite and refine prompts
T_Dosage == <<" ","d","o","s","a","g","e","\n">>
T_What == <<"w","h","a","t">>
LLMTexts == {T_Dosage, T_What}

\* raw outputs of the yes/no prompts (classifier, grader)
R_Yes == <<"Y","e","s">>
R_PaddedY == <<" ","y","\n">>
R_No == <<"N","o">>
R_Empty == <<>>
\* a response that is neither a yes nor a no
R_Maybe == <<"m","a","y","b","e">>
Responses == {R_Yes, R_PaddedY, R_No, R_Empty, R_Maybe}
\* the responses a reader takes as affirmative
Affirmative == {R_Yes, R_PaddedY}

\* raw outputs of the generation chain
Answers == {<<" ","o","k","\n">>}

\* page_content of the indexed passages
Corpus == {<<"a","\n","b">>, <<"c">>}

\* what one retriever call may return: distinct passages, in any order
RetrieverResults ==
    {d \in UNION {[1..n -> Corpus] : n \in 0..MaxDocs} :
        \A i, j \in 1..Len(d) : i # j => d[i] # d[j]}

\* raw answers to the feedback prompt
FeedbackInputs == {<<"Y","e","s"," ">>}

(***************************************************************************)
(* The graph nodes, as functions of the state and of what the ports return.*)
(***************************************************************************)
\* rephrase_count is left out of the reset
RewriterReset_keeps_count(st) ==
    [st EXCEPT !.documents = <<>>,
               !.on_topic = "",
               !.rephrased_question = <<>>,
               !.proceed_to_generate = FALSE]

\* graph_nodes.py 92-96: the per-turn fields are reset
RewriterReset(st) ==
    [st EXCEPT !.documents = <<>>,
               !.on_topic = "",
               !.rephrased_question = <<>>,
               !.proceed_to_generate = FALSE,
               !.rephrase_count = 0]

\* the question is appended without the membership test
RewriterAppend_always(st) ==
    [st EXCEPT !.messages = Append(@, st.question)]

\* graph_nodes.py 101-102: `not in` compares messages by value
RewriterAppend(st) ==
    IF ~Member(st.question, st.messages)
    THEN [st EXCEPT !.messages = Append(@, st.question)]
    ELSE st

\* graph_nodes.py 104: the rewriter calls the model
RewriterCallsLLM(st) == Len(RewriterAppend(RewriterReset(st)).messages) > 1

question_rewriter(st, out) ==
    LET s2 == RewriterAppend(RewriterReset(st))
    IN  IF Len(s2.messages) > 1
        THEN [s2 EXCEPT !.rephrased_question = Strip(out)]
        ELSE [s2 EXCEPT !.rephrased_question = s2.question.content]

\* the response is matched without lower()
question_classifier_cased(st, resp) ==
    [st EXCEPT !.on_topic = IF StartsWith(Strip(resp), <<"y">>) THEN "Yes" ELSE "No"]

question_classifier(st, resp) ==
    [st EXCEPT !.on_topic = IF StartsWithY(resp) THEN "Yes" ELSE "No"]

\* the retriever is asked with the turn's original question
RetrieverQuery_original(st) == st.question.content

\* graph_nodes.py 166: what the retriever is asked
RetrieverQuery(st) == st.rephrased_question

retrieve(st, found) == [st EXCEPT !.documents = found]

\* the passages of docs whose response starts with "y", in order
RECURSIVE Relevant(_, _)
Relevant(docs, resps) ==
    IF docs = <<>> THEN <<>>
    ELSE IF StartsWithY(Head(resps))
         THEN <<Head(docs)>> \o Relevant(Tail(docs), Tail(resps))
         ELSE Relevant(Tail(docs), Tail(resps))

\* the flag is set but documents keeps the unfiltered passages
retrieval_grader_unfiltered(st, resps) ==
    [st EXCEPT !.proceed_to_generate = Len(Relevant(st.documents, resps)) > 0]

\* the relevant passages are collected in reverse order
retrieval_grader_reversed(st, resps) ==
    LET relevant == Relevant(st.documents, resps)
        n == Len(relevant)
    IN  [st EXCEPT !.documents = [i \in 1..n |-> relevant[n + 1 - i]],
                   !.proceed_to_generate = n > 0]

retrieval_grader(st, resps) ==
    LET relevant == Relevant(st.documents, resps)
    IN  [st EXCEPT !.documents = relevant,
                   !.proceed_to_generate = Len(relevant) > 0]

\* graph_nodes.py 210: the pass-through branch
RefineCallsLLM(st) == ~(st.rephrase_count >= 2)

\* the increment of rephrase_count is forgotten
refine_question_no_count(st, out) ==
    IF st.rephrase_count >= 2
    THEN st
    ELSE [st EXCEPT !.rephrased_question = Strip(out)]

refine_question(st, out) ==
    IF st.rephrase_count >= 2
    THEN st
    ELSE [st EXCEPT !.rephrased_question = Strip(out),
                    !.rephrase_count = st.rephrase_count + 1]

\* the pair goes to long_term answer first
generate_answer_answer_first(st, response) ==
    LET ai_msg == AIMessage(Strip(response))
        s1 == [st EXCEPT !.messages = Append(@, ai_msg),
                         !.short_term = @ \o <<st.question, ai_msg>>]
    IN  IF is_important(st.question.content)
        THEN [s1 EXCEPT !.long_term = @ \o <<ai_msg, st.question>>]
        ELSE s1

generate_answer(st, response) ==
    LET ai_msg == AIMessage(Strip(response))
        s1 == [st EXCEPT !.messages = Append(@, ai_msg),
                         !.short_term = @ \o <<st.question, ai_msg>>]
    IN  IF is_important(st.question.content)
        THEN [s1 EXCEPT !.long_term = @ \o <<st.question, ai_msg>>]
        ELSE s1

\* the fallback message replaces the history instead of extending it
cannot_answer_overwrites(st) ==
    [st EXCEPT !.messages = <<AIMessage(CannotAnswerText)>>]

cannot_answer(st) ==
    [st EXCEPT !.messages = Append(@, AIMessage(CannotAnswerText))]

\* the fallback text of cannot_answer is pasted into off_topic_response
off_topic_response_pasted(st) ==
    [st EXCEPT !.messages = Append(@, AIMessage(CannotAnswerText))]

off_topic_response(st) ==
    [st EXCEPT !.messages = Append(@, AIMessage(OffTopicText))]

(***************************************************************************)
(* The graph: routers and edges (src/rag/graph.py).                        *)
(***************************************************************************)
on_topic_router(st) ==
    IF st.on_topic = "Yes" THEN "retrieve" ELSE "off_topic_response"

\* off by one: a third refinement is asked for
proceed_router_le(st) ==
    IF st.proceed_to_generate THEN "generate_answer"
    ELSE IF st.rephrase_count <= 2 THEN "refine_question"
    ELSE "cannot_answer"

\* off by one the other way: the fallback after a single refinement
proceed_router_early(st) ==
    IF st.proceed_to_generate THEN "generate_answer"
    ELSE IF st.rephrase_count < 1 THEN "refine_question"
    ELSE "cannot_answer"

proceed_router(st) ==
    IF st.proceed_to_generate THEN "generate_answer"
    ELSE IF st.rephrase_count < 2 THEN "refine_question"
    ELSE "cannot_answer"

Terminals == {"generate_answer", "cannot_answer", "off_topic_response"}

Nodes ==
    {"question_rewriter", "question_classifier", "retrieve",
     "retrieval_grader", "refine_question"} \cup Terminals

\* cannot_answer is wired to generate_answer instead of END
Edge_fallback_generates(node, st) ==
    CASE node = "question_rewriter" -> "question_classifier"
      [] node = "question_classifier" -> on_topic_router(st)
      [] node = "retrieve" -> "retrieval_grader"
      [] node = "retrieval_grader" -> proceed_router(st)
      [] node = "refine_question" -> "retrieve"
      [] node = "generate_answer" -> "END"
      [] node = "cannot_answer" -> "generate_answer"
      [] node = "off_topic_response" -> "END"

\* the node that runs after `node` has returned st
Edge(node, st) ==
    CASE node = "question_rewriter" -> "question_classifier"
      [] node = "question_classifier" -> on_topic_router(st)
      [] node = "retrieve" -> "retrieval_grader"
      [] node = "retrieval_grader" -> proceed_router(st)
      [] node = "refine_question" -> "retrieve"
      [] node = "generate_answer" -> "END"
      [] node = "cannot_answer" -> "END"
      [] node = "off_topic_response" -> "END"

(***************************************************************************)
(* feedback_collector's record (graph_nodes.py 306-317).                   *)
(***************************************************************************)
TruncLen == 300

\* graph_nodes.py 237: the widest window of short_term the nodes read
ShortTermWindow == 5

\* doc.page_content.replace("\n", " ")[:300]
Flatten(text) ==
    LET flat == [i \in 1..Len(text) |-> IF text[i] = "\n" THEN " " ELSE text[i]]
    IN  IF Len(flat) > TruncLen THEN SubSeq(flat, 1, TruncLen) ELSE flat

\* " | ".join(...)
RECURSIVE JoinDocs(_)
JoinDocs(docs) ==
    IF docs = <<>> THEN <<>>
    ELSE IF Len(docs) = 1 THEN Flatten(docs[1])
    ELSE Flatten(docs[1]) \o <<" ", "|", " ">> \o JoinDocs(Tail(docs))

\* the content of the last AIMessage of messages, "" when there is none
RECURSIVE LastAnswer(_)
LastAnswer(messages) ==
    IF messages = <<>> THEN <<>>
    ELSE IF messages[Len(messages)].role = "ai"
         THEN messages[Len(messages)].content
         ELSE LastAnswer(SubSeq(messages, 1, Len(messages) - 1))

\* the row is written twice
WriteRow_twice(log, record) == log \o <<record, record>>

\* graph_nodes.py 322-327: one row is appended to the csv file
WriteRow(log, record) == Append(log, record)

\* the answer is taken from the first assistant message of the history
FeedbackRecord_first_answer(st, fb) ==
    LET ai == SelectSeq(st.messages, LAMBDA m : m.role = "ai")
    IN  [question |-> st.question.content,
         rephrased_question |-> st.rephrased_question,
         documents |-> JoinDocs(st.documents),
         answer |-> IF ai = <<>> THEN <<>> ELSE ai[1].content,
         feedback |-> fb]

FeedbackRecord(st, fb) ==
    [question |-> st.question.content,
     rephrased_question |-> st.rephrased_question,
     documents |-> JoinDocs(st.documents),
     answer |-> LastAnswer(st.messages),
     feedback |-> fb]

\* graph_nodes.py 323, 326: the header row names the columns
Header ==
    [question |-> <<"question">>,
     rephrased_question |-> <<"rephrased_question">>,
     documents |-> <<"documents">>,
     answer |-> <<"answer">>,
     feedback |-> <<"feedback">>]

\* feedback_log.csv before the first write
NoFile == [exists |-> FALSE, rows |-> <<>>]

\* graph_nodes.py 322-327: what one `with open(..., mode='a')` block adds to
\* the file when it is closed: the header if file_exists was false, then
\* the row, written from the buffer in one piece
CsvAppend(file, file_exists, record) ==
    [exists |-> TRUE,
     rows |-> file.rows \o (IF file_exists THEN <<>> ELSE <<Header>>)
                        \o <<record>>]

\* the sessions that write to the sink, and the row each of them writes
Writers == 1..NumWriters

SinkRow(w) ==
    [question |-> Q_Hi,
     rephrased_question |-> Q_Hi,
     documents |-> <<>>,
     answer |-> OffTopicText,
     feedback |-> <<"w", "r", "i", "t", "e", "r">> \o <<ToString(w)>>]

\* a session that is not inside feedback_collector
WriterIdle == [at |-> "idle", file_exists |-> FALSE, written |-> 0]

(***************************************************************************)
(* State.                                                                  *)
(*   state         the thread's AgentState as the checkpointer holds it    *)
(*   pc            "idle" (main.py waits for a question), the node about   *)
(*                 to run, "END" (the graph returned)            *)
(*   outcome       what main.py reported for the last turn                 *)
(*   turn          questions asked so far                                  *)
(*   feedback      result_state["feedback"]                                *)
(*   feedback_log  the rows of feedback_log.csv                            *)
(*   obs           observers of the current turn (no effect on the rest)   *)
(*   csv_file      feedback_log.csv as a file: whether it exists, and its  *)
(*                 rows with the header rows among them                    *)
(*   writer        where each concurrent session is in the file part of    *)
(*                 feedback_collector, its file_exists and its row count   *)
(***************************************************************************)
InitState ==
    [messages |-> <<>>,
     short_term |-> <<>>,
     long_term |-> <<>>,
     documents |-> <<>>,
     on_topic |-> "",
     rephrased_question |-> <<>>,
     proceed_to_generate |-> FALSE,
     rephrase_count |-> 0,
     question |-> NoQuestion]

NoRun == [q |-> NoQuestion, on_topic |-> "", documents |-> <<>>,
          proceed_to_generate |-> FALSE, rephrase_count |-> 0]

\* no model output or query has been seen by the observer
NoResp == <<"none">>

\* the observers at the start of a turn
ObsStart(st, prevTerminal, prevRun, replay, nLog0, nDone) ==
    [msgs0 |-> st.messages,
     asked |-> <<>>,
     nLog0 |-> nLog0,
     nDone |-> nDone,
     nGen |-> 0,
     st0 |-> st.short_term,
     lt0 |-> st.long_term,
     nRefine |-> 0,
     nGrade |-> 0,
     nRetrieve |-> 0,
     nTerminal |-> 0,
     terminal |-> "none",
     afterTerminal |-> FALSE,
     lastNode |-> "none",
     lastResp |-> NoResp,
     rwCalled |-> FALSE,
     rwRaw |-> NoResp,
     lastQuery |-> NoResp,
     lastFound |-> <<>>,
     refineRaw |-> NoResp,
     gradeIn |-> <<>>,
     gradeCalls |-> 0,
     relIdx |-> {},
     lastRel |-> {},
     gradedQ |-> <<>>,
     anyRelevant |-> FALSE,
     prevTerminal |-> prevTerminal,
     prevRun |-> prevRun,
     replay |-> replay]

Init ==
    /\ state = InitState
    /\ pc = "idle"
    /\ outcome = "none"
    /\ turn = 0
    /\ feedback = <<>>
    /\ feedback_log = <<>>
    /\ obs = ObsStart(InitState, "none", NoRun, FALSE, 0, 0)
    /\ csv_file = NoFile
    /\ writer = [w \in Writers |-> WriterIdle]

Bump(n) == IF n < CountCap THEN n + 1 ELSE n

\* node has returned: the observers note it
Ran(node) ==
    [obs EXCEPT !.lastNode = node,
                !.lastResp = NoResp,
                !.rwCalled = FALSE,
                !.rwRaw = NoResp,
                !.lastQuery = NoResp,
                !.lastFound = <<>>,
                !.gradeIn = <<>>,
                !.gradeCalls = 0,
                !.relIdx = {},
                !.afterTerminal = @ \/ obs.terminal # "none",
                !.terminal = IF node \in Terminals THEN node ELSE @,
                !.nTerminal = IF node \in Terminals THEN Bump(@) ELSE @,
                !.nDone = IF node \in Terminals THEN @ + 1 ELSE @,
                !.nGen = IF node = "generate_answer" THEN @ + 1 ELSE @,
                !.nRefine = IF node = "refine_question" THEN Bump(@) ELSE @,
                !.nGrade = IF node = "retrieval_grader" THEN Bump(@) ELSE @,
                !.nRetrieve = IF node = "retrieve" THEN Bump(@) ELSE @]

\* node returned st2: the checkpoint takes it and the graph follows its edge
Finish(node, st2) ==
    /\ state' = st2
    /\ pc' = Edge(node, st2)
    /\ UNCHANGED <<outcome, turn, feedback, feedback_log, csv_file, writer>>

\* the except clause lets the failed turn go on to feedback_collector
Abort_then_feedback ==
    /\ pc' = "END"
    /\ outcome' = "error"
    /\ UNCHANGED <<turn, feedback, feedback_log, obs, csv_file, writer>>

\* a port call of the running node raised: graph.invoke raises, main.py
\* prints the error and asks for the next question (main.py 60-61); the
\* checkpoint keeps the state the last finished node returned
Abort ==
    /\ pc' = "idle"
    /\ outcome' = "error"
    /\ UNCHANGED <<turn, feedback, feedback_log, obs, csv_file, writer>>

(***************************************************************************)
(* Actions.                                                                *)
(***************************************************************************)
\* main.py 39-48: a question is typed and the graph is invoked with it
Submit(q) ==
    /\ pc = "idle"
    /\ state' = [state EXCEPT !.question = HumanMessage(q)]
    /\ pc' = "question_rewriter"
    /\ outcome' = "none"
    /\ turn' = turn + 1
    /\ LET replay == obs.terminal = "none" /\ state.question = HumanMessage(q)
       IN  obs' = [ObsStart(state, obs.terminal,
                            IF replay THEN obs.prevRun ELSE NoRun, replay,
                            Len(feedback_log), obs.nDone)
                     EXCEPT !.asked = q, !.nGen = obs.nGen]
    /\ UNCHANGED <<feedback, feedback_log, csv_file, writer>>

Invoke(q) ==
    /\ turn < MaxTurns
    /\ Submit(q)

\* the same, in the longer session of LongSpec
LongInvoke(q) ==
    /\ turn < LongTurns
    /\ Submit(q)

Rewriter(out) ==
    /\ pc = "question_rewriter"
    /\ LET st2 == question_rewriter(state, out)
       IN  /\ Finish("question_rewriter", st2)
           /\ obs' = [Ran("question_rewriter") EXCEPT
                        !.rwCalled = RewriterCallsLLM(state),
                        !.rwRaw = IF RewriterCallsLLM(state) THEN out ELSE NoResp,
                        !.prevRun = [q |-> st2.question,
                                     on_topic |-> st2.on_topic,
                                     documents |-> st2.documents,
                                     proceed_to_generate |-> st2.proceed_to_generate,
                                     rephrase_count |-> st2.rephrase_count]]

\* llm.invoke raises at graph_nodes.py 110, after the append of line 102.
\* The assignments of lines 92-96 are made on the node's own dict and are
\* lost; whether the in-place append reaches the stored messages depends on
\* the checkpointer, so both outcomes are taken.
RewriterFails(kept) ==
    /\ pc = "question_rewriter"
    /\ RewriterCallsLLM(state)
    /\ state' = IF kept
                THEN [state EXCEPT !.messages = RewriterAppend(state).messages]
                ELSE state
    /\ Abort

Classifier(resp) ==
    /\ pc = "question_classifier"
    /\ Finish("question_classifier", question_classifier(state, resp))
    /\ obs' = [Ran("question_classifier") EXCEPT !.lastResp = resp]

ClassifierFails ==
    /\ pc = "question_classifier"
    /\ UNCHANGED state
    /\ Abort

Retrieve(found) ==
    /\ pc = "retrieve"
    /\ Finish("retrieve", retrieve(state, found))
    /\ obs' = [Ran("retrieve") EXCEPT !.lastQuery = RetrieverQuery(state),
                                     !.lastFound = found]

RetrieveFails ==
    /\ pc = "retrieve"
    /\ UNCHANGED state
    /\ Abort

Grader(resps) ==
    /\ pc = "retrieval_grader"
    /\ Finish("retrieval_grader", retrieval_grader(state, resps))
    /\ LET rel == {state.documents[i] :
                     i \in {j \in 1..Len(state.documents) : resps[j] \in Affirmative}}
       IN  obs' = [Ran("retrieval_grader") EXCEPT
                     !.gradeIn = state.documents,
                     !.gradeCalls = Cardinality(DOMAIN resps),
                     !.relIdx = {j \in 1..Len(state.documents) :
                                   resps[j] \in Affirmative},
                     !.lastRel = rel,
                     !.gradedQ = state.rephrased_question,
                     !.anyRelevant = @ \/ rel # {}]

\* one of the per-passage calls raises (graph_nodes.py 187)
GraderFails ==
    /\ pc = "retrieval_grader"
    /\ Len(state.documents) > 0
    /\ UNCHANGED state
    /\ Abort

Refine(out) ==
    /\ pc = "refine_question"
    /\ Finish("refine_question", refine_question(state, out))
    /\ obs' = IF RefineCallsLLM(state)
              THEN [Ran("refine_question") EXCEPT !.refineRaw = out]
              ELSE [Ran("refine_question") EXCEPT !.nRefine = obs.nRefine]

RefineFails ==
    /\ pc = "refine_question"
    /\ RefineCallsLLM(state)
    /\ UNCHANGED state
    /\ Abort

Generate(response) ==
    /\ pc = "generate_answer"
    /\ Finish("generate_answer", generate_answer(state, response))
    /\ obs' = [Ran("generate_answer") EXCEPT !.prevRun = NoRun]

\* rag_chain.invoke raises (graph_nodes.py 239), before any append
GenerateFails ==
    /\ pc = "generate_answer"
    /\ UNCHANGED state
    /\ Abort

CannotAnswer ==
    /\ pc = "cannot_answer"
    /\ Finish("cannot_answer", cannot_answer(state))
    /\ obs' = [Ran("cannot_answer") EXCEPT !.prevRun = NoRun]

OffTopic ==
    /\ pc = "off_topic_response"
    /\ Finish("off_topic_response", off_topic_response(state))
    /\ obs' = [Ran("off_topic_response") EXCEPT !.prevRun = NoRun]

\* main.py 50-58: the answer is shown, then feedback_collector runs on the
\* returned state (the checkpointed state is not written)
FeedbackCollector(raw) ==
    /\ pc = "END"
    /\ LET fb == Lower(Strip(raw))
       IN  /\ feedback' = fb
           /\ feedback_log' = WriteRow(feedback_log, FeedbackRecord(state, fb))
           /\ csv_file' = CsvAppend(csv_file, csv_file.exists,
                                    FeedbackRecord(state, fb))
    /\ pc' = "idle"
    /\ outcome' = "answered"
    /\ UNCHANGED <<state, turn, obs, writer>>

\* the running node returns
NodeReturns ==
    \/ \E out \in LLMTexts : Rewriter(out)
    \/ \E resp \in Responses : Classifier(resp)
    \/ \E found \in RetrieverResults : Retrieve(found)
    \/ \E resps \in [1..Len(state.documents) -> Responses] : Grader(resps)
    \/ \E out \in LLMTexts : Refine(out)
    \/ \E response \in Answers : Generate(response)
    \/ CannotAnswer
    \/ OffTopic

\* a port call of the running node raises
NodeFails ==
    \/ \E kept \in BOOLEAN : RewriterFails(kept)
    \/ ClassifierFails
    \/ RetrieveFails
    \/ GraderFails
    \/ RefineFails
    \/ GenerateFails

NodeStep == NodeReturns \/ NodeFails

Next ==
    \/ \E q \in Questions : Invoke(q)
    \/ NodeStep
    \/ \E raw \in FeedbackInputs : FeedbackCollector(raw)

Spec == Init /\ [][Next]_vars

\* A longer session in which no port call fails, the rewrite and refine
\* prompts have one output and the retriever finds one passage.
LongNext ==
    \/ \E q \in Questions : LongInvoke(q)
    \/ Rewriter(T_What)
    \/ \E resp \in {R_Yes, R_No} : Classifier(resp)
    \/ Retrieve(<< <<"c">> >>)
    \/ \E resps \in [1..Len(state.documents) -> {R_Yes, R_No}] : Grader(resps)
    \/ Refine(T_What)
    \/ \E response \in Answers : Generate(response)
    \/ CannotAnswer
    \/ OffTopic
    \/ \E raw \in FeedbackInputs : FeedbackCollector(raw)

LongSpec == Init /\ [][LongNext]_vars

(***************************************************************************)
(* The file part of feedback_collector (graph_nodes.py 319-327), run by    *)
(* sessions of different thread ids that share feedback_log.csv.           *)
(***************************************************************************)
\* feedback_collector has built its record
WriterCall(w) ==
    /\ writer[w].at = "idle"
    /\ writer[w].written < MaxWrites
    /\ writer' = [writer EXCEPT ![w].at = "isfile"]
    /\ UNCHANGED <<state, pc, outcome, turn, feedback, feedback_log, obs, csv_file>>

\* line 320: file_exists = os.path.isfile(file_path)
WriterIsFile(w) ==
    /\ writer[w].at = "isfile"
    /\ writer' = [writer EXCEPT ![w].at = "open",
                                ![w].file_exists = csv_file.exists]
    /\ UNCHANGED <<state, pc, outcome, turn, feedback, feedback_log, obs, csv_file>>

\* line 322: open in append mode creates the file if it is absent
WriterOpen(w) ==
    /\ writer[w].at = "open"
    /\ csv_file' = [csv_file EXCEPT !.exists = TRUE]
    /\ writer' = [writer EXCEPT ![w].at = "close"]
    /\ UNCHANGED <<state, pc, outcome, turn, feedback, feedback_log, obs>>

\* lines 325-327 fill the buffer, the end of the with block writes it out
WriterClose(w) ==
    /\ writer[w].at = "close"
    /\ csv_file' = CsvAppend(csv_file, writer[w].file_exists, SinkRow(w))
    /\ writer' = [writer EXCEPT ![w].at = "idle",
                                ![w].written = @ + 1]
    /\ UNCHANGED <<state, pc, outcome, turn, feedback, feedback_log, obs>>

SinkNext ==
    \E w \in Writers :
        \/ WriterCall(w)
        \/ WriterIsFile(w)
        \/ WriterOpen(w)
        \/ WriterClose(w)

SinkSpec == Init /\ [][SinkNext]_vars

\* the graph runner runs the next node as soon as the last one returned
LiveSpec == Spec /\ WF_vars(NodeStep)

(***************************************************************************)
(* Properties.                                                             *)
(***************************************************************************)
NumAI(messages) == Cardinality({i \in 1..Len(messages) : messages[i].role = "ai"})

Count(x, seq) == Cardinality({i \in 1..Len(seq) : seq[i] = x})

\* the questions of Questions that name an importance keyword, whatever the case
ImportantQuestions == {Q_Dosage}

\* question_rewriter returns in this step
RewriterReturns == pc = "question_rewriter" /\ pc' = "question_classifier"

Rank(p, r) ==
    LET loop == IF r <= 2 THEN 3 * (2 - r) ELSE 0
    IN  CASE p = "question_rewriter" -> 11
          [] p = "question_classifier" -> 10
          [] p = "retrieve" -> loop + 3
          [] p = "retrieval_grader" -> loop + 2
          [] p = "refine_question" -> loop + 1
          [] p \in Terminals -> 1
          [] OTHER -> 0

\* a node step either aborts the turn or lowers the rank
RankDecreases ==
    pc \in Nodes =>
        \/ pc' = "idle" /\ outcome' = "error"
        \/ /\ pc' \in Nodes \cup {"END"}
           /\ Rank(pc', state'.rephrase_count) < Rank(pc, state.rephrase_count)
           /\ (pc' = "END") <=> (pc \in Terminals)

\* C2: a turn never takes more than 3 grading passes, 3 retrievals or 2
\* refinements; whatever the ports return, the node about to run can
\* return, and when it does the number of node steps the turn can still
\* take has gone down, reaching 0 exactly at END after a terminal node.
\* So a turn whose port calls all return ends at a terminal node.
C2_Terminates ==
    /\ [](obs.nGrade <= 3 /\ obs.nRetrieve <= 3 /\ obs.nRefine <= 2)
    /\ [](pc \in Nodes => ENABLED NodeReturns)
    /\ [](pc = "END" => obs.terminal \in Terminals)
    /\ [][RankDecreases]_vars

\* C2, as a liveness property under LiveSpec: every turn that has started
\* ends at a terminal node or in a port failure.
TurnEnds ==
    (pc \in Nodes) ~> ((pc = "END" /\ obs.terminal \in Terminals)
                         \/ (pc = "idle" /\ outcome = "error"))

C2_Witness ==
    /\ pc = "END"
    /\ obs.nGrade = 3
    /\ obs.nRetrieve = 3
    /\ obs.terminal = "generate_answer"

\* C3: in a turn at most one terminal node runs, it runs once, and no node
\* runs after it.
C3_OneTerminal ==
    /\ obs.nTerminal <= 1
    /\ ~obs.afterTerminal
    /\ obs.nTerminal = 1 => pc \in {"END", "idle"} /\ obs.terminal \in Terminals
    /\ obs.nTerminal = 0 => obs.terminal = "none"

C3_Witness ==
    /\ pc = "END"
    /\ obs.nTerminal = 1
    /\ obs.terminal = "cannot_answer"

\* C4: when generate_answer is about to run, documents is non-empty, every
\* passage of it was judged relevant by the grading pass that ran just
\* before, and that pass graded against the current rephrased_question.
C4_GenerateSeesGraded ==
    pc = "generate_answer" =>
        /\ state.documents # <<>>
        /\ \A i \in 1..Len(state.documents) : state.documents[i] \in obs.lastRel
        /\ obs.lastNode = "retrieval_grader"
        /\ obs.gradedQ = state.rephrased_question

C4_Witness ==
    /\ pc = "generate_answer"
    /\ turn = 2
    /\ obs.nGrade = 2
    /\ Len(state.documents) = 1
    /\ Len(state.messages) > 1

\* C5: cannot_answer runs only with rephrase_count = 2, documents empty and
\* proceed_to_generate false, right after a grading pass; and a turn whose
\* three grading passes all found nothing relevant goes to cannot_answer
\* with exactly two refinements taken.
C5_CannotAnswer ==
    /\ pc = "cannot_answer" =>
        /\ state.rephrase_count = 2
        /\ state.documents = <<>>
        /\ ~state.proceed_to_generate
        /\ obs.lastNode = "retrieval_grader"
    /\ (obs.nGrade = 3 /\ ~obs.anyRelevant) =>
        /\ obs.nRefine = 2
        /\ state.on_topic = "Yes"
        /\ IF obs.terminal = "none"
           THEN pc = "cannot_answer"
           ELSE obs.terminal = "cannot_answer"

C5_Witness ==
    /\ pc = "END"
    /\ obs.terminal = "cannot_answer"
    /\ obs.nGrade = 3
    /\ ~obs.anyRelevant
    /\ state.messages[Len(state.messages)] = AIMessage(CannotAnswerText)

\* C6: once the classifier has answered "No" in a turn, the turn goes to
\* off_topic_response and nowhere else: no retrieval and no grading pass
\* runs, documents stays empty, rephrase_count stays 0, and the turn adds
\* exactly one assistant message to messages, the fixed off-topic text.
C6_OffTopic ==
    (state.on_topic = "No" /\ obs.lastNode # "none") =>
        /\ obs.nRetrieve = 0
        /\ obs.nGrade = 0
        /\ obs.nRefine = 0
        /\ state.documents = <<>>
        /\ state.rephrase_count = 0
        /\ IF obs.terminal = "none"
           THEN /\ pc = "off_topic_response"
                /\ NumAI(state.messages) = NumAI(obs.msgs0)
           ELSE /\ obs.terminal = "off_topic_response"
                /\ NumAI(state.messages) = NumAI(obs.msgs0) + 1
                /\ state.messages[Len(state.messages)] = AIMessage(OffTopicText)
                /\ SubSeq(state.messages, 1, Len(obs.msgs0)) = obs.msgs0

C6_Witness ==
    /\ pc = "END"
    /\ turn = 2
    /\ obs.terminal = "off_topic_response"
    /\ NumAI(obs.msgs0) = 1

\* C7: short_term and long_term keep their values of the start of the turn
\* until generate_answer has run; after it short_term has gained the pair
\* (question, answer) and long_term has gained that pair iff the original
\* question names an importance keyword in any case.
C7_Memory ==
    IF obs.terminal = "generate_answer"
    THEN LET pair == <<state.question, state.messages[Len(state.messages)]>>
         IN  /\ pair[2].role = "ai"
             /\ state.short_term = obs.st0 \o pair
             /\ state.long_term =
                  IF state.question.content \in ImportantQuestions
                  THEN obs.lt0 \o pair
                  ELSE obs.lt0
    ELSE /\ state.short_term = obs.st0
         /\ state.long_term = obs.lt0

C7_Witness ==
    /\ pc = "END"
    /\ obs.terminal = "generate_answer"
    /\ Len(state.short_term) = 4
    /\ Len(state.long_term) = 2
    /\ state.question.content = Q_Dosage
    /\ state.rephrased_question # Strip(T_Dosage)

\* C8: whenever question_classifier is about to run, documents is empty,
\* proceed_to_generate is false, rephrase_count is 0 and on_topic is unset,
\* however the turn before ended.
C8_FreshTurn ==
    pc = "question_classifier" =>
        /\ state.documents = <<>>
        /\ state.proceed_to_generate = FALSE
        /\ state.rephrase_count = 0
        /\ state.on_topic = ""

\* the turn after a cannot_answer turn has taken two refinements again
C8_Witness ==
    /\ obs.prevTerminal = "cannot_answer"
    /\ obs.nRefine = 2
    /\ state.rephrase_count = 2

\* C9: when question_rewriter runs again on the question of a turn that
\* did not complete, it returns the reset values it returned the first
\* time, and messages holds that question once.
C9_RewriterIdempotent ==
    [][RewriterReturns =>
        /\ obs.replay => Count(state.question, state'.messages) = 1
        /\ obs.prevRun.q = state.question =>
            /\ state'.on_topic = obs.prevRun.on_topic
            /\ state'.documents = obs.prevRun.documents
            /\ state'.proceed_to_generate = obs.prevRun.proceed_to_generate
            /\ state'.rephrase_count = obs.prevRun.rephrase_count]_vars

C9_Witness ==
    /\ pc = "question_classifier"
    /\ obs.replay
    /\ obs.msgs0 = <<state.question>>
    /\ state.messages = <<state.question>>

\* C10: question_rewriter appends the turn's question to messages unless it
\* is the message appended last; in particular a question whose text was
\* asked earlier in the session, and answered, is appended again.
C10_AppendsQuestion ==
    (pc = "question_classifier"
        /\ (obs.msgs0 = <<>> \/ obs.msgs0[Len(obs.msgs0)] # state.question)) =>
        state.messages = Append(obs.msgs0, state.question)

\* main.py asks for the next question
Ask == \E q \in Questions : Invoke(q)

\* C11: when a port call fails the turn is over: control is back at the
\* prompt with an error reported (not the answered outcome of cannot_answer),
\* no terminal node has run, messages has no new assistant message,
\* short_term and long_term are those of the start of the turn, no feedback
\* row was written, and the next question can be asked.
C11_FailureAborts ==
    outcome = "error" =>
        /\ pc = "idle"
        /\ obs.terminal = "none"
        /\ obs.nTerminal = 0
        /\ NumAI(state.messages) = NumAI(obs.msgs0)
        /\ state.short_term = obs.st0
        /\ state.long_term = obs.lt0
        /\ Len(feedback_log) = obs.nLog0
        /\ turn < MaxTurns => ENABLED Ask

\* rag_chain.invoke failed in generate_answer, in the second turn
C11_Witness ==
    /\ outcome = "error"
    /\ turn = 2
    /\ obs.lastNode = "retrieval_grader"
    /\ state.proceed_to_generate
    /\ NumAI(state.messages) = 1

\* C12: short_term is a bounded recent window: its length never exceeds a
\* fixed constant, here the widest window the nodes read from it.
C12_ShortTermBounded == Len(state.short_term) <= ShortTermWindow

IsPrefix(a, b) == Len(a) <= Len(b) /\ SubSeq(b, 1, Len(a)) = a

\* C13: every step of the session leaves the previous messages and the
\* previous long_term as a prefix of the new ones: nothing is removed,
\* reordered or overwritten.
C13_AppendOnly ==
    [][/\ IsPrefix(state.messages, state'.messages)
       /\ IsPrefix(state.long_term, state'.long_term)]_vars

\* a second turn has extended both histories of the first
C13_Witness ==
    /\ pc = "END"
    /\ turn = 2
    /\ obs.lt0 # <<>>
    /\ obs.msgs0 # <<>>
    /\ Len(state.messages) > Len(obs.msgs0)
    /\ Len(state.long_term) = Len(obs.lt0) + 2

\* C14: the feedback log holds one row per turn that reached a terminal
\* node; the row of a turn is written after its terminal node has run and
\* before the next question is taken, and a turn that reached no terminal
\* writes none.
C14_OneRecordPerTurn ==
    /\ Len(feedback_log) + (IF pc = "END" THEN 1 ELSE 0) = obs.nDone
    /\ Len(feedback_log) \in {obs.nLog0, obs.nLog0 + 1}
    /\ Len(feedback_log) = obs.nLog0 + 1 =>
        /\ obs.terminal \in Terminals
        /\ pc = "idle"
        /\ outcome = "answered"
    /\ pc = "END" => obs.terminal \in Terminals /\ Len(feedback_log) = obs.nLog0

\* the first turn was aborted and wrote nothing, the second wrote its row
C14_Witness ==
    /\ pc = "idle"
    /\ outcome = "answered"
    /\ turn = 2
    /\ obs.prevTerminal = "none"
    /\ obs.nLog0 = 0
    /\ Len(feedback_log) = 1

\* C15: whatever the classifier's response, the node returns (a malformed
\* or empty response is no error); on_topic is "Yes" iff the response,
\* trimmed and lower-cased, starts with "y" and "No" otherwise, and the
\* turn goes to retrieve iff on_topic is "Yes" and to off_topic_response
\* otherwise.  An error reported while question_classifier is the last
\* node that ran comes from retrieve, so from an affirmative response.
C15_ClassifierParse ==
    /\ pc = "question_classifier" =>
        \A resp \in Responses : ENABLED Classifier(resp)
    /\ obs.lastNode = "question_classifier" =>
        /\ obs.lastResp \in Responses
        /\ state.on_topic = IF obs.lastResp \in Affirmative THEN "Yes" ELSE "No"
        /\ pc \in {"retrieve", "off_topic_response", "idle"}
        /\ pc = "retrieve" <=> (state.on_topic = "Yes" /\ outcome # "error")
        /\ pc = "off_topic_response" <=> state.on_topic = "No"
        /\ pc = "idle" <=> outcome = "error"
        /\ outcome = "error" => obs.lastResp \in Affirmative

\* a malformed response in the second turn sends it to off_topic_response
C15_Witness ==
    /\ obs.lastNode = "question_classifier"
    /\ obs.lastResp = R_Maybe
    /\ state.on_topic = "No"
    /\ pc = "off_topic_response"
    /\ outcome = "none"
    /\ turn = 2

\* C16: when retrieval_grader has returned, it has made one model call per
\* incoming passage; documents holds exactly the incoming passages whose
\* response was affirmative, in their incoming order; proceed_to_generate
\* is true iff there is such a passage, so it is false after an empty
\* retrieval.
C16_GraderFilters ==
    obs.lastNode = "retrieval_grader" =>
        /\ obs.gradeCalls = Len(obs.gradeIn)
        /\ obs.relIdx \subseteq 1..Len(obs.gradeIn)
        /\ Len(state.documents) = Cardinality(obs.relIdx)
        /\ \A i \in obs.relIdx :
              state.documents[Cardinality({j \in obs.relIdx : j <= i})]
                  = obs.gradeIn[i]
        /\ state.proceed_to_generate = (obs.relIdx # {})
        /\ state.proceed_to_generate = (state.documents # <<>>)
        /\ obs.gradeIn = <<>> => ~state.proceed_to_generate

\* both of two passages are kept, in the order the retriever gave them
C16_Witness ==
    /\ obs.lastNode = "retrieval_grader"
    /\ Len(obs.gradeIn) = 2
    /\ obs.relIdx = {1, 2}
    /\ state.documents = obs.gradeIn
    /\ state.proceed_to_generate
    /\ pc = "generate_answer"

\* the outputs of LLMTexts without their surrounding whitespace
ExpectedTrim(raw) ==
    IF raw = T_Dosage THEN <<"d","o","s","a","g","e">> ELSE raw

\* C17: refine_question is entered only from retrieval_grader, with
\* proceed_to_generate false and rephrase_count < 2, so it always calls the
\* model; the node that runs after it is retrieve, which asks the retriever
\* with the refined rephrased_question and leaves in documents exactly what
\* the retriever returned; grading runs only after retrieve.
C17_RefineLoop ==
    /\ pc = "refine_question" =>
        /\ obs.lastNode = "retrieval_grader"
        /\ ~state.proceed_to_generate
        /\ state.rephrase_count < 2
        /\ RefineCallsLLM(state)
    /\ obs.lastNode = "refine_question" =>
        /\ pc = "retrieve" \/ (pc = "idle" /\ outcome = "error")
        /\ obs.refineRaw \in LLMTexts
        /\ state.rephrased_question = ExpectedTrim(obs.refineRaw)
    /\ obs.lastNode = "retrieve" =>
        /\ obs.lastQuery = state.rephrased_question
        /\ obs.nRefine > 0 => obs.lastQuery = ExpectedTrim(obs.refineRaw)
        /\ obs.nRefine = 0 => obs.refineRaw = NoResp
        /\ state.documents = obs.lastFound
    /\ pc = "retrieval_grader" => obs.lastNode = "retrieve"

\* the second retrieval of a turn has asked with the trimmed refinement,
\* which differs from the question, and found two passages
C17_Witness ==
    /\ pc = "retrieval_grader"
    /\ obs.nRefine = 1
    /\ obs.nRetrieve = 2
    /\ obs.refineRaw = T_Dosage
    /\ obs.lastQuery = <<"d","o","s","a","g","e">>
    /\ state.question.content = Q_Hi
    /\ Len(state.documents) = 2

\* C18: when question_rewriter has returned, it has called the model iff
\* messages has more than one entry; without a call rephrased_question is
\* the raw question, with a call it is the trimmed output; in the first
\* turn of the session messages has one entry, and in every later turn it
\* has more than one, so the model is called.
C18_RewriterUsesHistory ==
    obs.lastNode = "question_rewriter" =>
        /\ obs.rwCalled <=> Len(state.messages) > 1
        /\ ~obs.rwCalled =>
            /\ Len(state.messages) = 1
            /\ state.rephrased_question = state.question.content
        /\ obs.rwCalled =>
            /\ obs.rwRaw \in LLMTexts
            /\ state.rephrased_question = ExpectedTrim(obs.rwRaw)
        /\ turn = 1 => ~obs.rwCalled
        /\ turn > 1 => obs.rwCalled

\* the passages of Corpus as one line each
ExpectedFlat(passage) ==
    IF passage = <<"a","\n","b">> THEN <<"a"," ","b">> ELSE passage

\* the documents field of the row for up to two passages
ExpectedDocuments(docs) ==
    IF Len(docs) = 0 THEN <<>>
    ELSE IF Len(docs) = 1 THEN ExpectedFlat(docs[1])
    ELSE ExpectedFlat(docs[1]) \o <<" ","|"," ">> \o ExpectedFlat(docs[2])

\* the text each terminal node appends for the answers of Answers
ExpectedAnswer(terminal) ==
    CASE terminal = "generate_answer" -> <<"o","k">>
      [] terminal = "cannot_answer" -> CannotAnswerText
      [] terminal = "off_topic_response" -> OffTopicText

\* C19: the row written after a completed turn holds the question that was
\* typed in that turn, the rephrased question as the last refinement left
\* it, the passages the last grading kept (none after cannot_answer and
\* off_topic_response), and the text of the assistant message that this
\* turn appended, which is the last message of the history.
C19_RecordOfTurn ==
    (pc = "idle" /\ outcome = "answered") =>
        LET row == feedback_log[Len(feedback_log)]
            last == state.messages[Len(state.messages)]
        IN  /\ row.question = obs.asked
            /\ row.rephrased_question = state.rephrased_question
            /\ obs.nRefine > 0 =>
                    row.rephrased_question = ExpectedTrim(obs.refineRaw)
            /\ Len(state.documents) <= 2
            /\ row.documents = ExpectedDocuments(state.documents)
            /\ obs.terminal = "generate_answer" =>
                /\ state.documents # <<>>
                /\ \A i \in 1..Len(state.documents) :
                        state.documents[i] \in obs.lastRel
            /\ obs.terminal \in {"cannot_answer", "off_topic_response"} =>
                    row.documents = <<>>
            /\ last.role = "ai"
            /\ NumAI(state.messages) = NumAI(obs.msgs0) + 1
            /\ Len(state.messages) > Len(obs.msgs0)
            /\ row.answer = last.content
            /\ row.answer = ExpectedAnswer(obs.terminal)
            /\ row.feedback = feedback

\* the second turn was answered from two passages after a refinement, the
\* first one was off topic: the second row carries the second answer
C19_Witness ==
    /\ pc = "idle"
    /\ outcome = "answered"
    /\ turn = 2
    /\ Len(feedback_log) = 2
    /\ obs.prevTerminal = "off_topic_response"
    /\ obs.terminal = "generate_answer"
    /\ obs.nRefine = 1
    /\ feedback_log[2].answer = <<"o","k">>
    /\ feedback_log[2].documents = <<"a"," ","b"," ","|"," ","c">>
    /\ feedback_log[1].answer = OffTopicText

\* C20: once feedback_log.csv has rows, its first row is the header and no
\* other row is, whatever the order in which concurrent sessions run the
\* steps of their appends.
C20_HeaderOnce ==
    csv_file.rows # <<>> =>
        /\ csv_file.rows[1] = Header
        /\ \A i \in 2..Len(csv_file.rows) : csv_file.rows[i] # Header

\* seq is made of (user question, assistant answer) pairs
IsPairs(seq) ==
    /\ Len(seq) % 2 = 0
    /\ \A i \in 1..Len(seq) :
          seq[i].role = IF i % 2 = 1 THEN "human" ELSE "ai"

\* a can be had from b by leaving entries out
RECURSIVE IsSubsequence(_, _)
IsSubsequence(a, b) ==
    IF a = <<>> THEN TRUE
    ELSE IF b = <<>> THEN FALSE
    ELSE IF Head(a) = Head(b) THEN IsSubsequence(Tail(a), Tail(b))
    ELSE IsSubsequence(a, Tail(b))

\* C21: in every reachable state short_term and long_term have even length
\* and are made of consecutive (user question, assistant answer) pairs,
\* long_term is an order-preserving subsequence of short_term, and
\* short_term has as many pairs as turns of the session have run
\* generate_answer.
C21_MemoryPairs ==
    /\ IsPairs(state.short_term)
    /\ IsPairs(state.long_term)
    /\ IsSubsequence(state.long_term, state.short_term)
    /\ Len(state.short_term) = 2 * obs.nGen

\* two generated turns, the second one important: long_term is the second
\* pair of short_term
C21_Witness ==
    /\ obs.nGen = 2
    /\ Len(state.short_term) = 4
    /\ Len(state.long_term) = 2
    /\ state.long_term = SubSeq(state.short_term, 3, 4)
    /\ state.long_term # SubSeq(state.short_term, 1, 2)
    /\ pc = "idle"

====
